---- MODULE Spec2Model ----
(***************************************************************************)
(* Oxford ITC503 temperature controller driver                             *)
(* (pymeasure/instruments/oxfordinstruments/itc503.py).                    *)
(*                                                                         *)
(* Three operations are modelled, each under its own specification:        *)
(*   Spec         ITC503.wait_for_temperature, the polling state machine   *)
(*   SpecSweep    ITC503.program_sweep, the sweep-table programmer         *)
(*   SpecPointer  pointer_validator, the validator of ITC503.pointer       *)
(* Time is counted in integer ticks; time() is the variable now, and the   *)
(* call starts at t0 = 0, so now is also the elapsed wall time.            *)
(***************************************************************************)
EXTENDS Integers, Sequences, FiniteSets, TLC

(***************************************************************************)
(* Bounds of the model.                                                    *)
(***************************************************************************)
MaxPolls == 4        \* polling iterations explored per call
MaxTimeout == 3      \* timeout in 0..MaxTimeout (0 disables it)
MaxInterval == 3     \* check_interval in 1..MaxInterval
MaxStability == 5    \* stability_interval in 0..MaxStability
MaxThermalize == 2   \* thermalize_interval in 0..MaxThermalize
MaxCommBudget == 1   \* max_comm_errors in {None} \cup 0..MaxCommBudget
MaxReadTime == 1     \* duration of one temperature_error query, 0..MaxReadTime
Tolerance == 1       \* the argument error (half-width of the band)

MaxLen == 17         \* temperatures arrays of 0..MaxLen entries
MaxSteps == 17       \* steps in {None} \cup 0..MaxSteps

MaxPointerLen == 3   \* lists and tuples of 0..MaxPointerLen items

MaxInstances == 2    \* instances of ITC503 constructed
MaxSetpoints == 1    \* writes of temperature_setpoint

\* max_comm_errors=None and steps=None, the defaults of the keyword arguments
None == -1

\* the sweep program of the ITC503 has 16 steps ("padding = 16 - ...")
TableSize == 16
\* "$s%f": a value travels as a decimal with six digits after the point; a
\* value on the wire or in the instrument is a whole number of 10^-6
Scale == 1000000

VARIABLES
    \* ---- wait_for_temperature ----
    arg,              \* the arguments of the call (a record)
    read_time,        \* how long one query of temperature_error takes
    pc,               \* position in wait_for_temperature
    now,              \* time() - t0
    stable_intervals, \* local variable
    attempt,          \* local variable
    comm_errors,      \* local variable
    t1,               \* local variable (end of the thermalization wait)
    stop_flag,        \* what should_stop() returns when it is called
    outcome,          \* how the call ended ("none" while it runs)
    samples,          \* history: the result of every temperature_error read
    stop_results,     \* history: the value of every should_stop() call
    t_exit,           \* history: time at which the polling loop was left by break
    t_poll,           \* history: time of the latest should_stop() call
    t_stop,           \* history: time from which should_stop() returns True
    \* ---- program_sweep ----
    call,             \* the arguments of the call (a record)
    itc,              \* the instrument: control mode, sweep status, pointers, table
    itc0,             \* history: the instrument as it was when the call began
    spc,              \* position in program_sweep
    program,          \* zip(temperatures, sweep_time, hold_time) after padding
    line,             \* loop variable: index into program (1-based)
    ended,            \* how program_sweep ended ("none" while it runs)
    cmds,             \* history: every write command issued, in order
    fail_line,        \* history: slot being programmed when a write failed
    \* ---- pointer_validator ----
    pv_value,         \* the argument value of the call
    pv_raised,        \* how the call ended ("none" before the call)
    pv_returned,      \* the value the call returned (<<>> if none)
    \* ---- the class ITC503 and its instances ----
    T_RANGE,          \* the class attribute _T_RANGE (one list object)
    events            \* history: constructions and set-point writes, in order

wait_vars == <<arg, read_time, pc, now, stable_intervals, attempt, comm_errors,
               t1, stop_flag, outcome, samples, stop_results, t_exit, t_poll,
               t_stop>>

sweep_vars == <<call, itc, itc0, spc, program, line, ended, cmds, fail_line>>

ptr_vars == <<pv_value, pv_raised, pv_returned>>

range_vars == <<T_RANGE, events>>

vars == <<wait_vars, sweep_vars, ptr_vars, range_vars>>

(***************************************************************************)
(* Helpers                                                                 *)
(***************************************************************************)
Abs(x) == IF x < 0 THEN -x ELSE x

\* A read of temperature_error either yields a value or raises ValueError
\* (the reply could not be converted by get_process).
\* A result is <<v>> for the value v, or Fail.
Fail == <<>>
\* 0 is inside the band; -Tolerance is on its edge, which (the comparison being
\* strict) is outside
TempErrors == {0, -Tolerance}
ReadResults == {<<v>> : v \in TempErrors} \cup {Fail}

InBand_Inclusive(temp_error, error) == Abs(temp_error) <= error

\* abs(temp_error) < error
InBand(temp_error, error) == Abs(temp_error) < error

NumberOfIntervals_Rounded(stability_interval, check_interval) ==
    (2 * stability_interval + check_interval) \div (2 * check_interval)

\* number_of_intervals = int(stability_interval / check_interval)
\* (both non-negative here, so int() truncation is floor division)
NumberOfIntervals(stability_interval, check_interval) ==
    stability_interval \div check_interval

number_of_intervals ==
    NumberOfIntervals(arg.stability_interval, arg.check_interval)

RunComplete_Strict(stable, required) == stable > required

\* stable_intervals >= number_of_intervals
RunComplete(stable, required) == stable >= required

TimedOut_Never(elapsed, timeout) == FALSE

TimedOut_Unguarded(elapsed, timeout) == elapsed > timeout

TimedOut_AtLeast(elapsed, timeout) == timeout > 0 /\ elapsed >= timeout

\* timeout > 0 and (time() - t0) > timeout
TimedOut(elapsed, timeout) == timeout > 0 /\ elapsed > timeout

BudgetExceeded_AtLeast(errors, max_comm_errors) ==
    max_comm_errors # None /\ errors >= max_comm_errors

\* max_comm_errors is not None and comm_errors > max_comm_errors
BudgetExceeded(errors, max_comm_errors) ==
    max_comm_errors # None /\ errors > max_comm_errors

AlreadyStable_Inverted(attempts) == attempts # 0

StopRequested_Negated(result) == ~result

\* if should_stop():   (the truth value of what the callable returned)
StopRequested(result) == result

\* attempt == 0
AlreadyStable(attempts) == attempts = 0

ThermalizeEnd_NoInterval(t, thermalize_interval) == t

\* t1 = time() + thermalize_interval
ThermalizeEnd(t, thermalize_interval) == t + thermalize_interval

Running == outcome = "none"

(***************************************************************************)
(* wait_for_temperature                                                    *)
(***************************************************************************)
Args ==
    [error : {Tolerance},
     timeout : 0..MaxTimeout,
     check_interval : 1..MaxInterval,
     stability_interval : 0..MaxStability,
     thermalize_interval : 0..MaxThermalize,
     max_comm_errors : {None} \cup (0..MaxCommBudget)]

\* _T_RANGE = [0, 1677.7], in tenths of a kelvin
DefaultRange == <<0, 16777>>

\* the class as it is defined, with no instance constructed
RangeIdle ==
    /\ T_RANGE = DefaultRange
    /\ events = <<>>

\* pointer_validator is not called
PointerIdle ==
    /\ pv_value = [type |-> "NoneType", items |-> <<>>]
    /\ pv_raised = "none"
    /\ pv_returned = <<>>

\* program_sweep is not called
SweepIdle ==
    /\ call = [temperatures |-> <<>>, sweep_time |-> <<>>, hold_time |-> <<>>,
               steps |-> None]
    /\ itc = [control_mode |-> 0, sweep_status |-> 0, x_pointer |-> 0,
              y_pointer |-> 0, sweep_table |-> <<>>]
    /\ itc0 = itc
    /\ spc = "idle"
    /\ program = <<>>
    /\ line = 0
    /\ ended = "none"
    /\ cmds = <<>>
    /\ fail_line = 0

Init ==
    /\ SweepIdle
    /\ PointerIdle
    /\ RangeIdle
    /\ arg \in Args
    /\ read_time \in 0..MaxReadTime
    /\ pc = "read"
    /\ now = 0
    /\ stable_intervals = 0
    /\ attempt = 0
    /\ comm_errors = 0
    /\ t1 = 0
    /\ stop_flag = FALSE
    /\ outcome = "none"
    /\ samples = <<>>
    /\ stop_results = <<>>
    /\ t_exit = -1
    /\ t_poll = -1
    /\ t_stop = -1

\* The environment makes should_stop() return True from now on.
RequestStop ==
    /\ Running
    /\ ~stop_flag
    /\ stop_flag' = TRUE
    /\ t_stop' = now
    /\ UNCHANGED <<sweep_vars, ptr_vars, range_vars>>
    /\ UNCHANGED <<arg, read_time, pc, now, stable_intervals, attempt,
                   comm_errors, t1, outcome, samples, stop_results, t_exit, t_poll>>

ReadTemperatureError_FailCounts ==
    /\ pc = "read"
    /\ Len(samples) < MaxPolls
    /\ \E r \in ReadResults :
        /\ samples' = Append(samples, r)
        /\ IF r = Fail
           THEN /\ comm_errors' = comm_errors + 1
                /\ stable_intervals' = 0
                /\ attempt' = attempt + 1
           ELSE /\ IF InBand(r[1], arg.error)
                   THEN /\ stable_intervals' = stable_intervals + 1
                        /\ UNCHANGED attempt
                   ELSE /\ stable_intervals' = 0
                        /\ attempt' = attempt + 1
                /\ UNCHANGED comm_errors
    /\ now' = now + read_time
    /\ pc' = "check"
    /\ UNCHANGED <<sweep_vars, ptr_vars, range_vars>>
    /\ UNCHANGED t_stop
    /\ UNCHANGED <<arg, read_time, t1, stop_flag, outcome, stop_results, t_exit, t_poll>>

\* try: temp_error = self.temperature_error / except ValueError / else
ReadTemperatureError ==
    /\ pc = "read"
    /\ Len(samples) < MaxPolls
    /\ \E r \in ReadResults :
        /\ samples' = Append(samples, r)
        /\ IF r = Fail
           THEN /\ comm_errors' = comm_errors + 1
                /\ UNCHANGED <<stable_intervals, attempt>>
           ELSE /\ IF InBand(r[1], arg.error)
                   THEN /\ stable_intervals' = stable_intervals + 1
                        /\ UNCHANGED attempt
                   ELSE /\ stable_intervals' = 0
                        /\ attempt' = attempt + 1
                /\ UNCHANGED comm_errors
    /\ now' = now + read_time
    /\ pc' = "check"
    /\ UNCHANGED <<sweep_vars, ptr_vars, range_vars>>
    /\ UNCHANGED t_stop
    /\ UNCHANGED <<arg, read_time, t1, stop_flag, outcome, stop_results, t_exit, t_poll>>

\* if stable_intervals >= number_of_intervals: break
BreakLoop ==
    /\ pc = "check"
    /\ RunComplete(stable_intervals, number_of_intervals)
    /\ pc' = "after_loop"
    /\ t_exit' = now
    /\ UNCHANGED <<sweep_vars, ptr_vars, range_vars>>
    /\ UNCHANGED t_stop
    /\ UNCHANGED <<arg, read_time, now, stable_intervals, attempt, comm_errors,
                   t1, stop_flag, outcome, samples, stop_results, t_poll>>

RaiseTimeout_BeforeBreak ==
    /\ pc = "check"
    /\ TimedOut(now, arg.timeout)
    /\ pc' = "done"
    /\ outcome' = "TimeoutError"
    /\ UNCHANGED <<sweep_vars, ptr_vars, range_vars>>
    /\ UNCHANGED t_stop
    /\ UNCHANGED <<arg, read_time, now, stable_intervals, attempt, comm_errors,
                   t1, stop_flag, samples, stop_results, t_exit, t_poll>>

\* if timeout > 0 and (time() - t0) > timeout: raise TimeoutError
RaiseTimeout ==
    /\ pc = "check"
    /\ ~RunComplete(stable_intervals, number_of_intervals)
    /\ TimedOut(now, arg.timeout)
    /\ pc' = "done"
    /\ outcome' = "TimeoutError"
    /\ UNCHANGED <<sweep_vars, ptr_vars, range_vars>>
    /\ UNCHANGED t_stop
    /\ UNCHANGED <<arg, read_time, now, stable_intervals, attempt, comm_errors,
                   t1, stop_flag, samples, stop_results, t_exit, t_poll>>

\* if max_comm_errors is not None and comm_errors > max_comm_errors:
\*     raise ValueError
RaiseCommError ==
    /\ pc = "check"
    /\ ~RunComplete(stable_intervals, number_of_intervals)
    /\ ~TimedOut(now, arg.timeout)
    /\ BudgetExceeded(comm_errors, arg.max_comm_errors)
    /\ pc' = "done"
    /\ outcome' = "ValueError"
    /\ UNCHANGED <<sweep_vars, ptr_vars, range_vars>>
    /\ UNCHANGED t_stop
    /\ UNCHANGED <<arg, read_time, now, stable_intervals, attempt, comm_errors,
                   t1, stop_flag, samples, stop_results, t_exit, t_poll>>

\* if should_stop(): return   (else fall through to the sleep)
PollShouldStop ==
    /\ pc = "check"
    /\ ~RunComplete(stable_intervals, number_of_intervals)
    /\ ~TimedOut(now, arg.timeout)
    /\ ~BudgetExceeded(comm_errors, arg.max_comm_errors)
    /\ stop_results' = Append(stop_results, stop_flag)
    /\ t_poll' = now
    /\ IF StopRequested(stop_flag)
       THEN pc' = "done" /\ outcome' = "stopped"
       ELSE pc' = "sleep" /\ UNCHANGED outcome
    /\ UNCHANGED <<sweep_vars, ptr_vars, range_vars>>
    /\ UNCHANGED t_stop
    /\ UNCHANGED <<arg, read_time, now, stable_intervals, attempt, comm_errors,
                   t1, stop_flag, samples, t_exit>>

\* sleep(check_interval)
Sleep ==
    /\ pc = "sleep"
    /\ now' = now + arg.check_interval
    /\ pc' = "read"
    /\ UNCHANGED <<sweep_vars, ptr_vars, range_vars>>
    /\ UNCHANGED t_stop
    /\ UNCHANGED <<arg, read_time, stable_intervals, attempt, comm_errors,
                   t1, stop_flag, outcome, samples, stop_results, t_exit, t_poll>>

\* if attempt == 0: return
ReturnStable ==
    /\ pc = "after_loop"
    /\ AlreadyStable(attempt)
    /\ pc' = "done"
    /\ outcome' = "stable"
    /\ UNCHANGED <<sweep_vars, ptr_vars, range_vars>>
    /\ UNCHANGED t_stop
    /\ UNCHANGED <<arg, read_time, now, stable_intervals, attempt, comm_errors,
                   t1, stop_flag, samples, stop_results, t_exit, t_poll>>

\* t1 = time() + thermalize_interval
StartThermalize ==
    /\ pc = "after_loop"
    /\ ~AlreadyStable(attempt)
    /\ t1' = ThermalizeEnd(now, arg.thermalize_interval)
    /\ pc' = "thermalize"
    /\ UNCHANGED <<sweep_vars, ptr_vars, range_vars>>
    /\ UNCHANGED t_stop
    /\ UNCHANGED <<arg, read_time, now, stable_intervals, attempt, comm_errors,
                   stop_flag, outcome, samples, stop_results, t_exit, t_poll>>

ThermalizeSleep_Reads ==
    /\ pc = "thermalize"
    /\ now < t1
    /\ now' = now + arg.check_interval
    /\ \E r \in ReadResults : samples' = Append(samples, r)
    /\ stop_results' = Append(stop_results, stop_flag)
    /\ t_poll' = now'
    /\ IF StopRequested(stop_flag)
       THEN pc' = "done" /\ outcome' = "stopped_thermalizing"
       ELSE UNCHANGED <<pc, outcome>>
    /\ UNCHANGED <<sweep_vars, ptr_vars, range_vars>>
    /\ UNCHANGED t_stop
    /\ UNCHANGED <<arg, read_time, stable_intervals, attempt, comm_errors,
                   t1, stop_flag, t_exit>>

\* while time() < t1: sleep(check_interval); if should_stop(): return
ThermalizeSleep ==
    /\ pc = "thermalize"
    /\ now < t1
    /\ now' = now + arg.check_interval
    /\ stop_results' = Append(stop_results, stop_flag)
    /\ t_poll' = now'
    /\ IF StopRequested(stop_flag)
       THEN pc' = "done" /\ outcome' = "stopped_thermalizing"
       ELSE UNCHANGED <<pc, outcome>>
    /\ UNCHANGED <<sweep_vars, ptr_vars, range_vars>>
    /\ UNCHANGED t_stop
    /\ UNCHANGED <<arg, read_time, stable_intervals, attempt, comm_errors,
                   t1, stop_flag, samples, t_exit>>

\* the final return, once time() >= t1
ReturnThermalized ==
    /\ pc = "thermalize"
    /\ ~(now < t1)
    /\ pc' = "done"
    /\ outcome' = "thermalized"
    /\ UNCHANGED <<sweep_vars, ptr_vars, range_vars>>
    /\ UNCHANGED t_stop
    /\ UNCHANGED <<arg, read_time, now, stable_intervals, attempt, comm_errors,
                   t1, stop_flag, samples, stop_results, t_exit, t_poll>>

Next ==
    \/ RequestStop
    \/ ReadTemperatureError
    \/ BreakLoop
    \/ RaiseTimeout
    \/ RaiseCommError
    \/ PollShouldStop
    \/ Sleep
    \/ ReturnStable
    \/ StartThermalize
    \/ ThermalizeSleep
    \/ ReturnThermalized

Spec == Init /\ [][Next]_vars

\* The statements of wait_for_temperature: every step but RequestStop, which
\* is the environment's.
ProgramStep ==
    \/ ReadTemperatureError
    \/ BreakLoop
    \/ RaiseTimeout
    \/ RaiseCommError
    \/ PollShouldStop
    \/ Sleep
    \/ ReturnStable
    \/ StartThermalize
    \/ ThermalizeSleep
    \/ ReturnThermalized

\* Calls whose timeout, when there is one, is exceeded within the MaxPolls
\* polls explored (a poll follows the start by at least check_interval >= 1
\* per sleep); reads that return at once; no comm-error budget, or the
\* tightest one.
InitLive ==
    /\ Init
    /\ arg.timeout \in 0..(MaxPolls - 2)
    /\ arg.max_comm_errors \in {None, 0}
    /\ read_time = 0

\* The function is sequential code; every read returns and every sleep
\* returns, so the statement the call is at is executed.
SpecLive == InitLive /\ [][Next]_vars /\ WF_vars(ProgramStep)

(***************************************************************************)
(* program_sweep: the numpy operations, in exact rational arithmetic.      *)
(* A rational is a pair <<numerator, denominator>> in lowest terms.        *)
(***************************************************************************)
RECURSIVE GCD(_, _)
GCD(a, b) == IF b = 0 THEN a ELSE GCD(b, a % b)

Frac(n, d) == LET g == GCD(Abs(n), d) IN <<n \div g, d \div g>>

\* numpy.round (round half to even) of the rational n/d >= 0
RoundHalfEven(n, d) ==
    LET q == n \div d
        r == n % d
    IN  IF 2 * r < d THEN q
        ELSE IF 2 * r > d THEN q + 1
        ELSE IF q % 2 = 0 THEN q ELSE q + 1

\* numpy.array(x, ndmin=1): a scalar becomes an array of one element. The
\* arguments of the model are sequences already; a scalar v is given as <<v>>.
AsArray(x) == x

\* steps = numpy.linspace(1, steps, steps): the points 1, 2, ..., steps
StepsArray(steps) == [k \in 1..steps |-> k]

\* numpy.round(numpy.linspace(1, steps.size, size)): size points evenly
\* spaced from 1 to steps.size, each rounded; linspace(1, n, 1) is [1.]
Interpolator(steps_size, size) ==
    [k \in 1..size |->
        IF size = 1 THEN 1
        ELSE RoundHalfEven((size - 1) + (k - 1) * (steps_size - 1), size - 1)]

\* numpy.interp(x, xp, fp) at one point x: fp[1] left of xp, fp[-1] right of
\* it; otherwise with j the last index such that xp[j] <= x, fp[j] when x is
\* xp[j] or j is the last index, else the point on the segment j, j+1
Interp(x, xp, fp) ==
    LET n == Len(xp) IN
    IF n = 1 THEN Frac(fp[1], 1)
    ELSE IF x < xp[1] THEN Frac(fp[1], 1)
    ELSE IF x > xp[n] THEN Frac(fp[n], 1)
    ELSE LET j == CHOOSE i \in 1..n :
                      /\ xp[i] <= x
                      /\ \A k \in (i + 1)..n : xp[k] > x
         IN  IF j = n \/ xp[j] = x THEN Frac(fp[j], 1)
             ELSE Frac(fp[j] * (xp[j + 1] - xp[j])
                           + (x - xp[j]) * (fp[j + 1] - fp[j]),
                       xp[j + 1] - xp[j])

\* numpy.interp(steps, interpolator, values) for a whole array
Interpolate(steps, values) ==
    LET interpolator == Interpolator(Len(steps), Len(values))
    IN  [k \in 1..Len(steps) |-> Interp(steps[k], interpolator, values)]

\* numpy.pad(array, (0, padding), 'constant', constant_values=c)
PadConstant(array, padding, c) == array \o [k \in 1..padding |-> c]

PadZero_Edge(array, padding) ==
    PadConstant(array, padding, array[Len(array)])

\* numpy.pad(array, (0, padding), 'constant'): the fill value defaults to 0
PadZero(array, padding) == PadConstant(array, padding, <<0, 1>>)

\* zip(temperatures, sweep_time, hold_time): stops at the shortest
Min3(a, b, c) ==
    IF a <= b /\ a <= c THEN a ELSE IF b <= c THEN b ELSE c

Zip(temperatures, sweep_time, hold_time) ==
    [k \in 1..Min3(Len(temperatures), Len(sweep_time), Len(hold_time)) |->
        <<temperatures[k], sweep_time[k], hold_time[k]>>]

Enumerate_FromZero(items, start) ==
    [k \in 1..Len(items) |-> <<k - 1, items[k]>>]

\* enumerate(items, start): the pairs (start, items[0]), (start + 1, items[1]) ...
Enumerate(items, start) ==
    [k \in 1..Len(items) |-> <<start + k - 1, items[k]>>]

StepCount_InputSize(temperatures, steps) == Len(temperatures)

\* the step count: steps, or temperatures.size when steps is None
StepCount(temperatures, steps) ==
    IF steps = None THEN Len(temperatures) ELSE steps

Padding_Clamped(temperatures, steps) ==
    IF StepCount(temperatures, steps) > TableSize THEN 0
    ELSE TableSize - StepCount(temperatures, steps)

\* padding = 16 - temperatures.size (of the interpolated array)
Padding(temperatures, steps) == TableSize - StepCount(temperatures, steps)

\* The three arrays after interpolation and padding, zipped and enumerated
\* from 1. Defined when Padding >= 0: numpy.pad raises ValueError otherwise.
BuildProgram(temperatures, sweep_time, hold_time, steps) ==
    LET grid == StepsArray(StepCount(temperatures, steps))
        t == Interpolate(grid, AsArray(temperatures))
        s == Interpolate(grid, AsArray(sweep_time))
        h == Interpolate(grid, AsArray(hold_time))
        padding == TableSize - Len(t)
    IN  Enumerate(Zip(PadConstant(t, padding, t[Len(t)]),
                      PadZero(s, padding),
                      PadZero(h, padding)), 1)

\* "%f" % value: the decimal with six digits after the point nearest to
\* value (value >= 0), as a whole number of 10^-6
FormatF(value) ==
    (value[1] \div value[2]) * Scale
        + RoundHalfEven((value[1] % value[2]) * Scale, value[2])

ControlModeName_Swapped(code) ==
    CASE code = 0 -> <<"L", "L">>
      [] code = 1 -> <<"L", "U">>
      [] code = 2 -> <<"R", "L">>
      [] code = 3 -> <<"R", "U">>

\* control_mode getter: values={"LL": 0, "RL": 1, "LU": 2, "RU": 3},
\* map_values=True maps the status digit back to its name
ControlModeName(code) ==
    CASE code = 0 -> <<"L", "L">>
      [] code = 1 -> <<"R", "L">>
      [] code = 2 -> <<"L", "U">>
      [] code = 3 -> <<"R", "U">>

\* str.startswith for a one-character prefix
StartsWith(name, prefix) == Len(name) >= 1 /\ name[1] = prefix

YPointers_Swapped == <<1, 3, 2>>

\* y_pointer values written for the set-point, the sweep time, the hold time
YPointers == <<1, 2, 3>>

(***************************************************************************)
(* The instrument. A write command is a pair <<letter, value>>:            *)
(*   S sweep status, x and y the table pointers, s a sweep table value,    *)
(* which the instrument stores in the cell the pointers select.            *)
(***************************************************************************)
Receive(instr, cmd) ==
    CASE cmd[1] = "S" -> [instr EXCEPT !.sweep_status = cmd[2]]
      [] cmd[1] = "x" -> [instr EXCEPT !.x_pointer = cmd[2]]
      [] cmd[1] = "y" -> [instr EXCEPT !.y_pointer = cmd[2]]
      [] cmd[1] = "s" ->
            IF instr.x_pointer \in 1..TableSize /\ instr.y_pointer \in 1..3
            THEN [instr EXCEPT
                    !.sweep_table[instr.x_pointer][instr.y_pointer] = cmd[2]]
            ELSE instr

\* what the table holds before the call: an earlier program
PreviousTable ==
    [l \in 1..TableSize |-> <<(4 + l) * Scale, 7 * Scale, 9 * Scale>>]

(***************************************************************************)
(* program_sweep                                                           *)
(***************************************************************************)
\* temperatures: 100, 200, ..., 100 n
Ramp(n) == [i \in 1..n |-> 100 * i]

\* sweep_time and hold_time: both scalars, or arrays of 2 and of 3 entries
TimeArgs == { << <<5>>, <<2>> >>, << <<4, 8>>, <<0, 3, 6>> >> }

SweepCalls ==
    { [temperatures |-> Ramp(n), sweep_time |-> t[1], hold_time |-> t[2],
       steps |-> st] :
        n \in 0..MaxLen, t \in TimeArgs, st \in {None} \cup (0..MaxSteps) }

\* wait_for_temperature is not called
WaitIdle ==
    /\ arg = [error |-> Tolerance, timeout |-> 0, check_interval |-> 1,
              stability_interval |-> 0, thermalize_interval |-> 0,
              max_comm_errors |-> None]
    /\ read_time = 0
    /\ pc = "idle"
    /\ now = 0
    /\ stable_intervals = 0
    /\ attempt = 0
    /\ comm_errors = 0
    /\ t1 = 0
    /\ stop_flag = FALSE
    /\ outcome = "none"
    /\ samples = <<>>
    /\ stop_results = <<>>
    /\ t_exit = -1
    /\ t_poll = -1
    /\ t_stop = -1

InitSweep ==
    /\ WaitIdle
    /\ PointerIdle
    /\ RangeIdle
    /\ call \in SweepCalls
    /\ \E mode \in 0..3 :
          \* sweep_status 1: a sweep is running when the call begins
          itc = [control_mode |-> mode, sweep_status |-> 1,
                 x_pointer |-> 0, y_pointer |-> 0,
                 sweep_table |-> PreviousTable]
    /\ itc0 = itc
    /\ spc = "check_mode"
    /\ program = <<>>
    /\ line = 0
    /\ ended = "none"
    /\ cmds = <<>>
    /\ fail_line = 0

NextCommand_StartsSweep ==
    CASE spc = "sweep_status" -> <<"S", 1>>
      [] spc = "x" -> <<"x", program[line][1]>>
      [] spc \in {"y1", "y2", "y3"} ->
            <<"y", YPointers[CHOOSE f \in 1..3 : spc = <<"y1", "y2", "y3">>[f]]>>
      [] spc \in {"s1", "s2", "s3"} ->
            <<"s", FormatF(program[line][2][
                CHOOSE f \in 1..3 : spc = <<"s1", "s2", "s3">>[f]])>>

\* the write command program_sweep issues next
NextCommand ==
    CASE spc = "sweep_status" -> <<"S", 0>>
      [] spc = "x" -> <<"x", program[line][1]>>
      [] spc \in {"y1", "y2", "y3"} ->
            <<"y", YPointers[CHOOSE f \in 1..3 : spc = <<"y1", "y2", "y3">>[f]]>>
      [] spc \in {"s1", "s2", "s3"} ->
            <<"s", FormatF(program[line][2][
                CHOOSE f \in 1..3 : spc = <<"s1", "s2", "s3">>[f]])>>

\* the position after the command at spc, within one slot
AfterCommand ==
    CASE spc = "x" -> "y1"
      [] spc = "y1" -> "s1"
      [] spc = "s1" -> "y2"
      [] spc = "y2" -> "s2"
      [] spc = "s2" -> "y3"
      [] spc = "y3" -> "s3"

\* if not self.control_mode.startswith("R"): raise AttributeError
CheckControlMode ==
    /\ spc = "check_mode"
    /\ IF ~StartsWith(ControlModeName(itc.control_mode), "R")
       THEN spc' = "done" /\ ended' = "AttributeError"
       ELSE spc' = "sweep_status" /\ UNCHANGED ended
    /\ UNCHANGED <<call, itc, itc0, program, line, cmds, fail_line>>
    /\ UNCHANGED <<wait_vars, ptr_vars, range_vars>>

\* self.sweep_status = 0
StopSweep ==
    /\ spc = "sweep_status"
    /\ cmds' = Append(cmds, NextCommand)
    /\ itc' = Receive(itc, NextCommand)
    /\ spc' = "build"
    /\ UNCHANGED <<call, itc0, program, line, ended, fail_line>>
    /\ UNCHANGED <<wait_vars, ptr_vars, range_vars>>

\* the array computations, up to the for statement. numpy.interp raises
\* ValueError for an empty array of sample points (temperatures is the first
\* to be interpolated); with no steps the interpolated temperatures array is
\* empty and temperatures[-1] raises IndexError; numpy.pad raises ValueError
\* for a negative pad width
ComputeArrays ==
    /\ spc = "build"
    /\ IF Len(AsArray(call.temperatures)) = 0
       THEN /\ spc' = "done"
            /\ ended' = "ValueError"
            /\ UNCHANGED <<program, line>>
       ELSE IF StepCount(call.temperatures, call.steps) = 0
       THEN /\ spc' = "done"
            /\ ended' = "IndexError"
            /\ UNCHANGED <<program, line>>
       ELSE IF Padding(call.temperatures, call.steps) < 0
       THEN /\ spc' = "done"
            /\ ended' = "ValueError"
            /\ UNCHANGED <<program, line>>
       ELSE /\ program' = BuildProgram(call.temperatures, call.sweep_time,
                                       call.hold_time, call.steps)
            /\ line' = 1
            /\ spc' = "x"
            /\ UNCHANGED ended
    /\ UNCHANGED <<call, itc, itc0, cmds, fail_line>>
    /\ UNCHANGED <<wait_vars, ptr_vars, range_vars>>

\* self.x_pointer = line, self.y_pointer = 1 / 2 / 3
SetPointer ==
    /\ spc \in {"x", "y1", "y2", "y3"}
    /\ cmds' = Append(cmds, NextCommand)
    /\ itc' = Receive(itc, NextCommand)
    /\ spc' = AfterCommand
    /\ UNCHANGED <<call, itc0, program, line, ended, fail_line>>
    /\ UNCHANGED <<wait_vars, ptr_vars, range_vars>>

\* self.sweep_table = setpoint / sweep / hold; after hold the loop goes on
\* to the next item, or ends
SetSweepTable ==
    /\ spc \in {"s1", "s2", "s3"}
    /\ cmds' = Append(cmds, NextCommand)
    /\ itc' = Receive(itc, NextCommand)
    /\ IF spc # "s3"
       THEN spc' = AfterCommand /\ UNCHANGED <<line, ended>>
       ELSE IF line < Len(program)
            THEN spc' = "x" /\ line' = line + 1 /\ UNCHANGED ended
            ELSE spc' = "done" /\ ended' = "returned" /\ UNCHANGED line
    /\ UNCHANGED <<call, itc0, program, fail_line>>
    /\ UNCHANGED <<wait_vars, ptr_vars, range_vars>>

\* A write raises (an I/O error of the adapter): nothing catches it. The
\* command may or may not have reached the instrument.
WriteFails ==
    /\ spc \in {"sweep_status", "x", "y1", "y2", "y3", "s1", "s2", "s3"}
    /\ cmds' = Append(cmds, NextCommand)
    /\ \E delivered \in BOOLEAN :
          itc' = IF delivered THEN Receive(itc, NextCommand) ELSE itc
    /\ fail_line' = IF spc = "sweep_status" THEN 0 ELSE program[line][1]
    /\ spc' = "done"
    /\ ended' = "WriteError"
    /\ UNCHANGED <<call, itc0, program, line>>
    /\ UNCHANGED <<wait_vars, ptr_vars, range_vars>>

NextSweep ==
    \/ CheckControlMode
    \/ StopSweep
    \/ ComputeArrays
    \/ SetPointer
    \/ SetSweepTable
    \/ WriteFails

SpecSweep == InitSweep /\ [][NextSweep]_vars

(***************************************************************************)
(* pointer_validator                                                       *)
(***************************************************************************)
\* A Python value is a record: its type name and, for a list or a tuple, its
\* items (for a number, the number as its only item).
\* values=[0, 128] of the property pointer
PointerRange == <<0, 128>>

PointerItems == {-1, 0, 128, 129}

PointerValues ==
    {[type |-> "int", items |-> <<v>>] : v \in PointerItems}
    \cup {[type |-> t, items |-> <<>>] : t \in {"str", "NoneType"}}
    \cup {[type |-> t, items |-> i] :
            t \in {"list", "tuple"},
            i \in UNION {[1..n -> PointerItems] : n \in 0..MaxPointerLen}}

\* isinstance(value, (list, tuple))
IsListOrTuple(value) == value.type \in {"list", "tuple"}

\* '{:g}'.format(value): a number is formatted ("ok"); str.__format__ raises
\* ValueError for the format code 'g'; the __format__ of a list, a tuple or
\* None raises TypeError for any non-empty format string
FormatG(value) ==
    CASE value.type \in {"int", "float"} -> "ok"
      [] value.type = "str" -> "ValueError"
      [] OTHER -> "TypeError"

\* raise exception('{:g} ...'.format(value)): the exception that leaves the
\* statement is the one of format() when format() raises
RaiseWithMessage(exception, value) ==
    IF FormatG(value) = "ok" THEN exception ELSE FormatG(value)

\* strict_range(v, values): v when values[0] <= v <= values[1], ValueError
\* otherwise
StrictRange(v, values) == values[1] <= v /\ v <= values[2]

\* pointer_validator(value, values): what is raised ("returned" when
\* nothing is) and what is returned
PointerValidator(value, values) ==
    IF ~IsListOrTuple(value)
    THEN [raised |-> RaiseWithMessage("TypeError", value), returned |-> <<>>]
    ELSE IF ~(Len(value.items) = 2)
    THEN [raised |-> RaiseWithMessage("IndexError", value), returned |-> <<>>]
    ELSE IF \E k \in 1..2 : ~StrictRange(value.items[k], values)
    THEN [raised |-> "ValueError", returned |-> <<>>]
    ELSE [raised |-> "returned", returned |-> value.items]

InitPointer ==
    /\ WaitIdle
    /\ SweepIdle
    /\ RangeIdle
    /\ pv_value \in PointerValues
    /\ pv_raised = "none"
    /\ pv_returned = <<>>

\* the call pointer_validator(value, [0, 128]) made by the property pointer
CallPointerValidator ==
    /\ pv_raised = "none"
    /\ pv_raised' = PointerValidator(pv_value, PointerRange).raised
    /\ pv_returned' = PointerValidator(pv_value, PointerRange).returned
    /\ UNCHANGED pv_value
    /\ UNCHANGED <<wait_vars, sweep_vars, range_vars>>

NextPointer == CallPointerValidator

SpecPointer == InitPointer /\ [][NextPointer]_vars

(***************************************************************************)
(* ITC503.__init__ and temperature_setpoint                                *)
(***************************************************************************)
\* min_temperature and max_temperature of a construction, set-points written
\* (tenths of a kelvin)
MinTemperatures == {None, 100, 200}
MaxTemperatures == {None, 3000, 4000}
Setpoints == {0, 2500, 20000}

SetBound_Restoring(range, k, bound) ==
    [range EXCEPT ![k] = IF bound = None THEN DefaultRange[k] ELSE bound]

\* if bound is not None: self._T_RANGE[k] = bound
\* (item assignment on the list found through the class: the one list)
SetBound(range, k, bound) ==
    IF bound # None THEN [range EXCEPT ![k] = bound] ELSE range

\* truncated_range(value, values): value brought into [values[0], values[1]]
TruncatedRange(v, values) ==
    IF v < values[1] THEN values[1]
    ELSE IF v > values[2] THEN values[2]
    ELSE v

\* the instances constructed so far, numbered in the order of construction
Instances == {k \in 1..Len(events) : events[k][1] = "new"}
SetpointWrites == {k \in 1..Len(events) : events[k][1] = "set"}

InitRange ==
    /\ WaitIdle
    /\ SweepIdle
    /\ PointerIdle
    /\ RangeIdle

\* ITC503(resourceName, max_temperature=..., min_temperature=...)
Construct ==
    /\ Cardinality(Instances) < MaxInstances
    /\ \E min_temperature \in MinTemperatures, max_temperature \in MaxTemperatures :
          /\ T_RANGE' = SetBound(SetBound(T_RANGE, 1, min_temperature),
                                 2, max_temperature)
          /\ events' = Append(events, <<"new", min_temperature, max_temperature>>)
    /\ UNCHANGED <<wait_vars, sweep_vars, ptr_vars>>

\* instance.temperature_setpoint = v, on the instance constructed at
\* events[i]: the validator is given values=_T_RANGE, the list of the class;
\* the event records the value sent to the instrument
SetTemperatureSetpoint ==
    /\ Cardinality(SetpointWrites) < MaxSetpoints
    /\ \E i \in Instances, v \in Setpoints :
          events' = Append(events, <<"set", i, v, TruncatedRange(v, T_RANGE)>>)
    /\ UNCHANGED T_RANGE
    /\ UNCHANGED <<wait_vars, sweep_vars, ptr_vars>>

NextRange == Construct \/ SetTemperatureSetpoint

SpecRange == InitRange /\ [][NextRange]_vars

(***************************************************************************)
(* Properties of wait_for_temperature (checked under Spec)                 *)
(***************************************************************************)
Front(h) == SubSeq(h, 1, Len(h) - 1)

\* In-band readings since the most recent out-of-band reading, computed from
\* the history of reads; failed reads are skipped.
RECURSIVE RunLength(_)
RunLength(h) ==
    IF h = <<>> THEN 0
    ELSE LET r == h[Len(h)] IN
         IF r = Fail THEN RunLength(Front(h))
         ELSE IF r[1] < arg.error /\ -r[1] < arg.error
              THEN 1 + RunLength(Front(h))
              ELSE 0

\* Some successfully read sample of the history was out of band.
HasExcursion(h) ==
    \E i \in 1..Len(h) :
        h[i] # Fail /\ ~(h[i][1] < arg.error /\ -h[i][1] < arg.error)

CountFail(h) == Cardinality({i \in 1..Len(h) : h[i] = Fail})

\* The polling loop was left through break.
LoopExited ==
    \/ pc \in {"after_loop", "thermalize"}
    \/ outcome \in {"stable", "thermalized", "stopped_thermalizing"}

Raised == outcome \in {"TimeoutError", "ValueError"}

\* the case C1 is about
C1_Pre ==
    /\ arg.timeout = 0
    /\ arg.max_comm_errors = None
    /\ ~stop_flag
    /\ number_of_intervals >= 1

\* C1: with the timeout disabled, no comm-error budget and should_stop never
\* true, the polling loop is left (by break) at the first poll at which the
\* history holds N >= 1 in-band samples since the latest out-of-band one, and
\* not before; failed reads neither break the run nor count; the call ends in
\* no other way.
C1_StabilityDetection ==
    C1_Pre =>
        /\ pc # "check" => (LoopExited <=> RunLength(samples) >= number_of_intervals)
        /\ LoopExited => /\ samples # <<>>
                         /\ RunLength(Front(samples)) < number_of_intervals
        /\ ~Running => LoopExited

\* out, in, failed read, in: the run of 2 completes across a failed read
C1_Witness ==
    /\ C1_Pre
    /\ pc = "after_loop"
    /\ number_of_intervals = 2
    /\ samples = << <<-Tolerance>>, <<0>>, Fail, <<0>> >>

\* C2 (as stated): a timeout failure happens at an elapsed time t with
\* T <= t < T + check_interval, also when T is a multiple of check_interval
\* (reads taking no time).
C2_Original ==
    (/\ outcome = "TimeoutError"
     /\ read_time = 0
     /\ CountFail(samples) = 0
     /\ ~stop_flag) =>
        /\ arg.timeout <= now
        /\ now < arg.timeout + arg.check_interval

\* C2 (amended): a timeout failure happens at the first poll whose check finds
\* the elapsed time strictly greater than T: T < t <= T + check_interval + the
\* duration of a read, with t = T + check_interval when reads take no time and
\* T is a multiple of check_interval; no poll goes on to sleep after T; and a
\* call that never completes a run, with no budget and no stop, ends in no
\* other way than the timeout failure.
C2_TimeoutWindow ==
    /\ outcome = "TimeoutError" =>
        /\ arg.timeout > 0
        /\ now > arg.timeout
        /\ now <= arg.timeout + arg.check_interval + read_time
        /\ (read_time = 0 /\ arg.timeout % arg.check_interval = 0)
               => now = arg.timeout + arg.check_interval
    /\ (arg.timeout > 0 /\ pc = "sleep") => now <= arg.timeout
    /\ (/\ ~Running
        /\ RunLength(samples) < number_of_intervals
        /\ arg.max_comm_errors = None
        /\ ~stop_flag) => outcome = "TimeoutError"

C2_Witness ==
    /\ outcome = "TimeoutError"
    /\ read_time = 0
    /\ arg.timeout = 2
    /\ arg.check_interval = 2
    /\ now = 4

\* C3 (as stated): should_stop false at its first poll and true from then on
\* makes the call return normally, whatever the timeout.
C3_Original ==
    (/\ ~Running
     /\ arg.max_comm_errors = None
     /\ read_time = 0
     /\ CountFail(samples) = 0
     /\ Len(stop_results) = 1
     /\ stop_results[1] = FALSE
     /\ stop_flag) => ~Raised

\* C3 (amended): when should_stop is false at its first poll and true at its
\* second, the call returns normally at that second poll (no further read,
\* sleep or poll); the call does not get to a second poll, and raises, only
\* when at that iteration the timeout has expired (timeout > 0, elapsed >
\* timeout) or the comm-error budget is exceeded, which are checked first.
\* A poll that returns false never ends the call.
C3_Cancellation ==
    /\ outcome \in {"stopped", "stopped_thermalizing"}
       => stop_results[Len(stop_results)] = TRUE
    /\ (/\ Len(stop_results) >= 2
        /\ stop_results[1] = FALSE
        /\ stop_results[2] = TRUE)
       => /\ Len(stop_results) = 2
          /\ outcome \in {"stopped", "stopped_thermalizing"}
          /\ now = t_poll
    /\ (/\ Raised
        /\ Len(stop_results) = 1
        /\ stop_results[1] = FALSE
        /\ stop_flag)
       => \/ outcome = "TimeoutError" /\ arg.timeout > 0 /\ now > arg.timeout
          \/ /\ outcome = "ValueError"
             /\ arg.max_comm_errors # None
             /\ comm_errors > arg.max_comm_errors

\* cancelled at the second poll although the timeout is long
C3_Witness ==
    /\ outcome = "stopped"
    /\ stop_results = <<FALSE, TRUE>>
    /\ arg.timeout = MaxTimeout
    /\ arg.check_interval = 1

\* C4 (as stated): the call fails with the communication-error condition
\* exactly when the count of read failures exceeds max_comm_errors.
C4_Original ==
    (/\ ~Running
     /\ number_of_intervals >= 1
     /\ read_time = 0
     /\ ~stop_flag
     /\ arg.max_comm_errors # None
     /\ comm_errors > arg.max_comm_errors) => outcome = "ValueError"

\* C4 (amended): read failures are counted over the whole call and never
\* reset; the communication-error failure is raised only at the
\* (max_comm_errors + 1)-th failure, so max_comm_errors failures are
\* tolerated; the poll of the (max_comm_errors + 1)-th failure ends the call:
\* with the communication-error failure, or with the timeout failure when the
\* timeout has expired at that poll, or with the loop exit when the required
\* sample count is 0 (both are checked first); with None nothing aborts.
C4_CommBudget ==
    /\ comm_errors = CountFail(samples)
    /\ outcome = "ValueError" =>
        /\ arg.max_comm_errors # None
        /\ comm_errors = arg.max_comm_errors + 1
        /\ samples[Len(samples)] = Fail
    /\ (/\ arg.max_comm_errors # None
        /\ comm_errors > arg.max_comm_errors
        /\ pc # "check")
       => \/ outcome = "ValueError"
          \/ outcome = "TimeoutError" /\ arg.timeout > 0 /\ now > arg.timeout
          \/ LoopExited /\ number_of_intervals = 0

\* one failure tolerated, a successful read in between, the second aborts
C4_Witness ==
    /\ outcome = "ValueError"
    /\ arg.max_comm_errors = 1
    /\ samples = <<Fail, <<0>>, Fail>>

\* C5: after an excursion (a successfully read out-of-band sample) and with
\* should_stop never true, the call returns normally, no earlier than the
\* time the loop was left plus thermalize_interval.
C5_ExcursionThermalizes ==
    (LoopExited /\ HasExcursion(samples) /\ ~stop_flag) =>
        /\ pc \in {"after_loop", "thermalize", "done"}
        /\ pc = "done" => /\ outcome = "thermalized"
                          /\ now >= t_exit + arg.thermalize_interval

C5_Witness ==
    /\ outcome = "thermalized"
    /\ ~stop_flag
    /\ HasExcursion(samples)
    /\ arg.thermalize_interval = MaxThermalize
    /\ now = t_exit + MaxThermalize

\* C6: when no sample was out of band up to the poll that completes the run,
\* attempt is 0 at the loop exit and the call returns at that poll: no
\* thermalization sleep and no further should_stop poll.
C6_NoExcursionSkips ==
    (LoopExited /\ ~HasExcursion(samples)) =>
        /\ attempt = 0
        /\ pc \in {"after_loop", "done"}
        /\ pc = "done" => /\ outcome = "stable"
                          /\ now = t_exit
                          /\ Len(stop_results) = Len(samples) - 1

\* three in-band samples in a row from the first poll on
C6_Witness ==
    /\ outcome = "stable"
    /\ number_of_intervals = 3
    /\ samples = << <<0>>, <<0>>, <<0>> >>
    /\ arg.thermalize_interval > 0
    /\ now = t_exit
    /\ Len(stop_results) = 2

(***************************************************************************)
(* Properties of program_sweep (checked under SpecSweep)                   *)
(***************************************************************************)
Remote == itc0.control_mode \in {1, 3}
Table == itc.sweep_table

\* the case C7 is about
C7_Case ==
    /\ Remote
    /\ Len(call.temperatures) \in 1..TableSize
    /\ Len(call.sweep_time) = 1
    /\ Len(call.hold_time) = 1
    /\ call.steps \in {None, Len(call.temperatures)}

\* C7: in remote mode, with n <= 16 temperatures, scalar sweep_time s and
\* hold_time h and steps = n or omitted, a call that returns leaves slot i
\* holding (temperatures[i], s, h) for i in 1..n and (temperatures[n], 0, 0)
\* for i in n+1..16; such a call fails in no other way than by a failed write.
C7_SweepTableContents ==
    C7_Case =>
        LET n == Len(call.temperatures)
            s == call.sweep_time[1]
            h == call.hold_time[1]
        IN  /\ spc = "done" => ended \in {"returned", "WriteError"}
            /\ ended = "returned" =>
                 \A i \in 1..TableSize :
                    Table[i] = IF i <= n
                               THEN <<call.temperatures[i] * Scale,
                                      s * Scale, h * Scale>>
                               ELSE <<call.temperatures[n] * Scale, 0, 0>>

\* program_sweep([100, 200, 300], 5, 2, steps=3)
C7_Witness ==
    /\ C7_Case
    /\ ended = "returned"
    /\ call.temperatures = <<100, 200, 300>>
    /\ call.steps = 3
    /\ Table[3] = <<300 * Scale, 5 * Scale, 2 * Scale>>
    /\ Table[4] = <<300 * Scale, 0, 0>>

\* C8: when control_mode reports LL (0) or LU (2) the call raises
\* AttributeError and issues no write: the instrument is as it was.
C8_LocalModeNoWrites ==
    itc0.control_mode \in {0, 2} =>
        /\ cmds = <<>>
        /\ itc = itc0
        /\ spc \in {"check_mode", "done"}
        /\ spc = "done" => ended = "AttributeError"

C8_Witness ==
    /\ itc0.control_mode = 2
    /\ ended = "AttributeError"
    /\ cmds = <<>>

\* The k-th write command of a call that programs the 16 slots: sweep status
\* 0, then for each line 1..16 in turn x = line, y = 1, s = set-point,
\* y = 2, s = sweep time, y = 3, s = hold time.
ExpectedCommand(k) ==
    IF k = 1 THEN <<"S", 0>>
    ELSE LET l == ((k - 2) \div 7) + 1
             r == (k - 2) % 7
         IN  IF r = 0 THEN <<"x", l>>
             ELSE IF r % 2 = 1 THEN <<"y", (r + 1) \div 2>>
             ELSE <<"s", FormatF(program[l][2][r \div 2])>>

\* C9: the commands issued are, in order, those of ExpectedCommand (every
\* state of a call holds a prefix of that sequence); a call that returns has
\* issued all 1 + 16 * 7 of them, and the instrument, which stores each value
\* at the pointers written last, then holds the computed program in all 48
\* cells.
C9_WriteProtocol ==
    /\ program # <<>> =>
         /\ Len(program) = TableSize
         /\ \A k \in 1..Len(cmds) : cmds[k] = ExpectedCommand(k)
    /\ ended = "returned" =>
         /\ Len(cmds) = 1 + TableSize * 7
         /\ \A l \in 1..TableSize : \A f \in 1..3 :
               Table[l][f] = FormatF(program[l][2][f])

\* a program of 5 steps interpolated from 2 temperatures
C9_Witness ==
    /\ ended = "returned"
    /\ Len(call.temperatures) = 2
    /\ call.steps = 5
    /\ Len(cmds) = 1 + TableSize * 7
    /\ Table[2][1] = 125 * Scale

\* C10: a write that fails while slot fail_line is programmed ends the call
\* there: no command follows it, the slots below fail_line hold their new
\* triples, the slots above it hold what they held before the call, and the
\* sweep status is 0.
C10_MidTableFailure ==
    (ended = "WriteError" /\ fail_line >= 1) =>
        /\ spc = "done"
        /\ Len(cmds) \in (2 + 7 * (fail_line - 1))..(1 + 7 * fail_line)
        /\ \A l \in 1..(fail_line - 1) : \A f \in 1..3 :
              Table[l][f] = FormatF(program[l][2][f])
        /\ \A l \in (fail_line + 1)..TableSize : Table[l] = itc0.sweep_table[l]
        /\ itc.sweep_status = 0

\* the write of the sweep time of slot 5 fails: slot 4 is new, slot 5 is
\* half-written, slot 6 is old
C10_Witness ==
    /\ ended = "WriteError"
    /\ fail_line = 5
    /\ cmds[Len(cmds)][1] = "s"
    /\ Table[4] # itc0.sweep_table[4]
    /\ Table[5][1] # itc0.sweep_table[5][1]
    /\ Table[5][3] = itc0.sweep_table[5][3]
    /\ Table[6] = itc0.sweep_table[6]

(***************************************************************************)
(* Further properties of wait_for_temperature (checked under Spec)         *)
(***************************************************************************)
\* the integers nearest to si / ci (two of them when the ratio is a half)
NearestIntegers(si, ci) ==
    {n \in 0..(si + 1) : 2 * n * ci - 2 * si <= ci /\ 2 * si - 2 * n * ci <= ci}

\* the integer part of si / ci
Truncated(si, ci) == CHOOSE n \in 0..si : n * ci <= si /\ (n + 1) * ci > si

\* n consecutive in-band samples are required to leave the polling loop: the
\* loop is left with a run of exactly n samples (at the first poll when n is
\* zero), and polling goes on only while the run is shorter.
RequiresSamples(n) ==
    /\ LoopExited =>
          /\ RunLength(samples) >= n
          /\ n >= 1 => RunLength(samples) = n
          /\ n = 0 => Len(samples) = 1
    /\ (pc \in {"sleep", "read"} /\ samples # <<>>) => RunLength(samples) < n

\* C11 (as stated): the number of consecutive in-band samples required to
\* leave the polling loop is round(stability_interval / check_interval), the
\* ratio rounded to the nearest integer.
C11_Original ==
    \E n \in NearestIntegers(arg.stability_interval, arg.check_interval) :
        RequiresSamples(n)

\* C11 (amended): the number of consecutive in-band samples required is the
\* ratio stability_interval / check_interval truncated to its integer part
\* (a ratio of 1.67 requires one sample).
C11_TruncatedSampleCount ==
    RequiresSamples(Truncated(arg.stability_interval, arg.check_interval))

\* ratio 5/3 = 1.67: one in-band sample completes the run
C11_Witness ==
    /\ arg.stability_interval = 5
    /\ arg.check_interval = 3
    /\ pc = "after_loop"
    /\ samples = << <<0>> >>

\* C12: timeout is a budget for the whole wait, polling and thermalization
\* alike: with timeout > 0 and should_stop never true (reads taking no time),
\* the call never returns normally at an elapsed time greater than
\* timeout + check_interval.
C12_TimeoutBudget ==
    (/\ arg.timeout > 0
     /\ ~stop_flag
     /\ read_time = 0
     /\ outcome \in {"stable", "thermalized"})
        => now <= arg.timeout + arg.check_interval

\* time elapsed since should_stop began to return True
SinceStop == now - t_stop

\* C13 (as stated): from the moment should_stop becomes true and stays true
\* (reads taking no time), the call ends within one check_interval, in the
\* polling loop and in the thermalization wait alike.
C13_Original ==
    (t_stop >= 0 /\ read_time = 0) => SinceStop <= arg.check_interval

\* C13 (amended): from the moment should_stop becomes true and stays true
\* (reads taking no time), the call ends within two check_intervals, and
\* within one unless the loop is left by break after the request (the
\* thermalization wait then sleeps once more before its first poll); a poll
\* that finds should_stop true ends the call by a plain return; should_stop
\* is polled once per polling iteration that goes on to sleep, and once after
\* each sleep of the thermalization wait, and nowhere else.
C13_CancellationLatency ==
    /\ (t_stop >= 0 /\ read_time = 0) =>
          /\ SinceStop <= 2 * arg.check_interval
          /\ SinceStop > arg.check_interval =>
                /\ t_exit > t_stop
                /\ HasExcursion(samples)
                /\ arg.thermalize_interval > 0
    /\ (stop_results # <<>> /\ stop_results[Len(stop_results)]) =>
          outcome \in {"stopped", "stopped_thermalizing"}
    /\ pc \in {"sleep", "read"} => Len(stop_results) = Len(samples)
    /\ pc \in {"check", "after_loop"} => Len(stop_results) = Len(samples) - 1
    /\ pc = "thermalize" =>
          (Len(stop_results) - (Len(samples) - 1)) * arg.check_interval
              = now - t_exit

\* the request arrives during the sleep before the poll that completes the
\* run: the call ends two check_intervals later, in the thermalization wait
C13_Witness ==
    /\ read_time = 0
    /\ outcome = "stopped_thermalizing"
    /\ t_stop >= 0
    /\ SinceStop = 2 * arg.check_interval

\* C14: with timeout = 0 the call never fails with the timeout condition,
\* however long it has been waiting: it ends only by stability (with or
\* without the thermalization wait), by the comm-error budget or by
\* should_stop.
C14_ZeroTimeoutDisables ==
    arg.timeout = 0 =>
        /\ outcome # "TimeoutError"
        /\ ~Running =>
              \/ LoopExited
              \/ outcome = "ValueError" /\ arg.max_comm_errors # None
                                       /\ CountFail(samples) > arg.max_comm_errors
              \/ outcome = "stopped" /\ stop_flag

\* still polling after MaxPolls - 1 sleeps of the longest interval
C14_Witness ==
    /\ arg.timeout = 0
    /\ pc = "sleep"
    /\ Len(samples) = MaxPolls
    /\ now >= (MaxPolls - 1) * MaxInterval
    /\ now > MaxTimeout

\* a step that is a failed read of temperature_error
FailedRead ==
    /\ Len(samples') = Len(samples) + 1
    /\ samples'[Len(samples')] = Fail

\* C18: a failed read adds one to the comm-error counter and leaves the
\* stable-run counter and the attempt counter as they were; the
\* thermalization wait is entered only when some sample that was read
\* successfully was out of band, never because of failed reads.
C18_FailedReadCountsOnlyErrors ==
    /\ [][FailedRead =>
            /\ comm_errors' = comm_errors + 1
            /\ stable_intervals' = stable_intervals
            /\ attempt' = attempt
            /\ outcome' = outcome]_vars
    /\ [](pc = "thermalize" => HasExcursion(samples))

\* out of band, in band, failed read: the run of one and the attempt survive
C18_Witness ==
    /\ samples = << <<-Tolerance>>, <<0>>, Fail >>
    /\ pc = "check"
    /\ stable_intervals = 1
    /\ attempt = 1
    /\ comm_errors = 1

\* the conditions of one poll, from the history and the clock
PollComplete ==
    RunLength(samples) >=
        Truncated(arg.stability_interval, arg.check_interval)
PollTimedOut == arg.timeout > 0 /\ now > arg.timeout
PollOverBudget ==
    arg.max_comm_errors # None /\ CountFail(samples) > arg.max_comm_errors

\* C19: within one poll the checks come in the order stability, timeout,
\* comm-error budget, should_stop: a poll that completes the in-band run
\* leaves the loop by break whatever the clock, the error count and
\* should_stop say; otherwise an elapsed timeout raises TimeoutError, also
\* when the budget is exceeded too; otherwise an exceeded budget raises
\* ValueError; should_stop is called only on a poll that does neither.
C19_OrderOfChecks ==
    [][(pc = "check" /\ pc' # "check") =>
          /\ PollComplete =>
                pc' = "after_loop" /\ outcome' = "none"
          /\ (~PollComplete /\ PollTimedOut) => outcome' = "TimeoutError"
          /\ (~PollComplete /\ ~PollTimedOut /\ PollOverBudget) =>
                outcome' = "ValueError"
          /\ (PollComplete \/ PollTimedOut \/ PollOverBudget) =>
                stop_results' = stop_results
          /\ ~(PollComplete \/ PollTimedOut \/ PollOverBudget) =>
                stop_results' = Append(stop_results, stop_flag)]_vars

\* the loop is left by break on a poll at which the timeout has elapsed and
\* should_stop is true
C19_Witness ==
    /\ pc = "after_loop"
    /\ arg.timeout > 0
    /\ now > arg.timeout
    /\ stop_flag
    /\ t_stop < now

(***************************************************************************)
(* Further properties of program_sweep (checked under SpecSweep)           *)
(***************************************************************************)
\* positions in the command log of the commands with the given letter
Commands(letter) == {k \in 1..Len(cmds) : cmds[k][1] = letter}

\* the slots addressed by the x_pointer writes of the call
SlotsAddressed == {cmds[k][2] : k \in Commands("x")}

\* the step count asked for: steps, or the length of temperatures
Requested == IF call.steps = None THEN Len(call.temperatures) ELSE call.steps

\* C15: in remote mode the call writes sweep_status = 0 once, as its first
\* command, after the control-mode check; every x_pointer, y_pointer and
\* sweep_table write comes after it, with the sweep stopped; a call in local
\* mode writes nothing.
C15_StopsSweepFirst ==
    /\ cmds # <<>> => Remote /\ cmds[1] = <<"S", 0>>
    /\ Commands("S") \subseteq {1}
    /\ (Remote /\ spc \notin {"check_mode", "sweep_status"}) =>
          Commands("S") = {1}
    /\ (Commands("x") \cup Commands("y") \cup Commands("s")) # {} =>
          itc.sweep_status = 0

\* the sweep that was running is stopped before slot 1 is addressed
C15_Witness ==
    /\ itc0.sweep_status = 1
    /\ itc.sweep_status = 0
    /\ spc = "y1"
    /\ cmds = << <<"S", 0>>, <<"x", 1>> >>

\* C16 (as stated): for every non-empty temperatures array, one longer than
\* 16 entries with steps omitted included, the call builds a program of 16
\* slots and programs exactly 16 slots.
C16_Original ==
    (/\ Remote
     /\ Len(call.temperatures) >= 1
     /\ call.steps = None
     /\ spc = "done"
     /\ ended # "WriteError") =>
        /\ ended = "returned"
        /\ Len(program) = TableSize
        /\ SlotsAddressed = 1..TableSize

\* C16 (amended): for a non-empty temperatures array the program has exactly
\* 16 slots, and the call programs exactly 16 slots, whenever the step count
\* (steps, or the length of temperatures when steps is omitted) is in 1..16;
\* when it exceeds 16 the call raises ValueError, and when it is 0
\* IndexError, having programmed no slot.
C16_SixteenSlots ==
    /\ program # <<>> => Len(program) = TableSize /\ Requested \in 1..TableSize
    /\ (/\ Remote
        /\ Len(call.temperatures) >= 1
        /\ spc = "done"
        /\ ended # "WriteError") =>
          IF Requested \in 1..TableSize
          THEN /\ ended = "returned"
               /\ Len(program) = TableSize
               /\ SlotsAddressed = 1..TableSize
          ELSE /\ ended = (IF Requested = 0 THEN "IndexError" ELSE "ValueError")
               /\ program = <<>>
               /\ SlotsAddressed = {}

\* 17 temperatures reduced onto 16 steps
C16_Witness ==
    /\ Len(call.temperatures) = TableSize + 1
    /\ call.steps = TableSize
    /\ ended = "returned"
    /\ SlotsAddressed = 1..TableSize

\* C20: every x_pointer written is in 1..16 and every y_pointer in 1..3; when
\* the step count exceeds 16 the call fails after writing sweep_status = 0
\* and before any x_pointer, y_pointer or sweep_table write: the sweep is
\* stopped and the table is as it was.
C20_SlotsInRange ==
    /\ \A k \in Commands("x") : cmds[k][2] \in 1..TableSize
    /\ \A k \in Commands("y") : cmds[k][2] \in 1..3
    /\ (Remote /\ Requested > TableSize) =>
          /\ Len(cmds) <= 1
          /\ Table = itc0.sweep_table
          /\ spc = "done" => ended \in {"ValueError", "WriteError"}
          /\ ended = "ValueError" =>
                cmds = << <<"S", 0>> >> /\ itc.sweep_status = 0

\* 17 steps asked for: the running sweep is stopped, nothing else is written
C20_Witness ==
    /\ Requested = TableSize + 1
    /\ Len(call.temperatures) >= 1
    /\ ended = "ValueError"
    /\ itc0.sweep_status = 1
    /\ itc.sweep_status = 0
    /\ cmds = << <<"S", 0>> >>
    /\ Table = itc0.sweep_table

(***************************************************************************)
(* Properties of pointer_validator (checked under SpecPointer)             *)
(***************************************************************************)
\* C17: the call raises TypeError when value is not a tuple or a list
\* (a string as well as a number), IndexError when value is a tuple or a
\* list whose length is not 2, and otherwise returns the 2-tuple of its
\* items, each passed through strict_range (which raises ValueError for an
\* item outside the range).
C17_PointerValidatorContract ==
    pv_raised # "none" =>
        IF pv_value.type \notin {"list", "tuple"}
        THEN pv_raised = "TypeError"
        ELSE IF Len(pv_value.items) # 2
        THEN pv_raised = "IndexError"
        ELSE IF \A k \in 1..2 : pv_value.items[k] \in 0..128
        THEN pv_raised = "returned" /\ pv_returned = pv_value.items
        ELSE pv_raised = "ValueError"

(***************************************************************************)
(* Termination of wait_for_temperature (checked under SpecLive)            *)
(***************************************************************************)
\* the polling loop is still running
Polling == Running /\ pc \in {"read", "check", "sleep"}

\* C21: with timeout > 0 every call eventually ends (by stability, timeout
\* failure, comm-error failure or cancellation); the thermalization wait,
\* once entered, ends; with timeout = 0, no comm-error budget, should_stop
\* never true and readings that do not complete the run, the call stays in
\* the polling loop.
C21_Termination ==
    /\ (arg.timeout > 0) ~> ~Running
    /\ (pc = "thermalize") ~> ~Running
    /\ []((/\ arg.timeout = 0
           /\ arg.max_comm_errors = None
           /\ ~stop_flag
           /\ RunLength(samples) <
                 Truncated(arg.stability_interval, arg.check_interval))
          => Polling)

\* the longest timeout, exceeded only at the last poll explored
C21_Witness ==
    /\ arg.timeout = MaxPolls - 2
    /\ arg.check_interval = 1
    /\ read_time = 0
    /\ Len(samples) = MaxPolls
    /\ outcome = "TimeoutError"

(***************************************************************************)
(* Properties of wait_for_temperature, continued (checked under Spec)      *)
(***************************************************************************)
\* the first sample was read successfully and was out of band
FirstOutOfBand ==
    /\ samples # <<>>
    /\ samples[1] # Fail
    /\ ~(samples[1][1] < arg.error /\ -samples[1][1] < arg.error)

\* C22: when stability_interval < check_interval no sample is required: the
\* loop is left at the first poll whatever was read (in band, out of band or
\* a failure), without the timeout, the comm-error budget or should_stop
\* being consulted; the thermalization wait follows exactly when that first
\* sample was read successfully and was out of band.
C22_ZeroRequiredSamples ==
    arg.stability_interval < arg.check_interval =>
        /\ Len(samples) <= 1
        /\ pc \notin {"sleep"}
        /\ pc = "read" => samples = <<>>
        /\ outcome \notin {"TimeoutError", "ValueError", "stopped"}
        /\ pc \in {"check", "after_loop"} => stop_results = <<>>
        /\ outcome = "stable" => stop_results = <<>> /\ ~FirstOutOfBand
        /\ (pc = "thermalize"
              \/ outcome \in {"thermalized", "stopped_thermalizing"}) =>
              FirstOutOfBand
        /\ (pc = "done" /\ FirstOutOfBand) =>
              outcome \in {"thermalized", "stopped_thermalizing"}

\* the first read fails with a budget of no errors and should_stop true: the
\* call returns as stable all the same
C22_Witness ==
    /\ arg.stability_interval < arg.check_interval
    /\ arg.max_comm_errors = 0
    /\ samples = <<Fail>>
    /\ stop_flag
    /\ outcome = "stable"

\* C24: the call issues no command but reads of temperature_error: the
\* instrument and the log of writes never change; a read happens only at the
\* head of a polling iteration, once per iteration, the first before any
\* sleep (reads and sleeps alternate, so the clock counts them); no read
\* happens once the loop is left, the thermalization wait included.
C24_OnlyTemperatureErrorReads ==
    /\ [][itc' = itc /\ cmds' = cmds]_vars
    /\ [][samples' # samples =>
            /\ pc = "read"
            /\ Len(samples') = Len(samples) + 1
            /\ SubSeq(samples', 1, Len(samples)) = samples]_vars
    /\ [](/\ cmds = <<>>
          /\ itc = itc0
          /\ (Running /\ pc = "read") =>
                now = Len(samples) * (arg.check_interval + read_time)
          /\ pc \in {"check", "sleep"} =>
                now = (Len(samples) - 1) * arg.check_interval
                        + Len(samples) * read_time
          /\ LoopExited =>
                t_exit = (Len(samples) - 1) * arg.check_interval
                           + Len(samples) * read_time)

\* two reads, then a full thermalization wait without a read
C24_Witness ==
    /\ outcome = "thermalized"
    /\ arg.thermalize_interval = MaxThermalize
    /\ now >= t_exit + MaxThermalize
    /\ Len(samples) = 2
    /\ cmds = <<>>
    /\ itc = itc0

(***************************************************************************)
(* Properties of the temperature range (checked under SpecRange)           *)
(***************************************************************************)
\* The bound given by the latest construction of the history h that gave one
\* (field 2: min_temperature, field 3: max_temperature), or the default.
RECURSIVE LatestBound(_, _, _)
LatestBound(h, field, default) ==
    IF h = <<>> THEN default
    ELSE LET e == h[Len(h)] IN
         IF e[1] = "new" /\ e[field] # None THEN e[field]
         ELSE LatestBound(SubSeq(h, 1, Len(h) - 1), field, default)

\* C23: the range that bounds temperature_setpoint is one value for all
\* instances: at any time it is, for each end, the bound given by the latest
\* construction that gave one, whichever instance that was, and the default
\* 0 / 1677.7 only if no construction ever gave one (a construction with
\* None does not restore it); a set-point written through any instance,
\* constructed earlier or later, is held to that range.
C23_SharedTemperatureRange ==
    /\ T_RANGE = <<LatestBound(events, 2, 0), LatestBound(events, 3, 16777)>>
    /\ \A k \in 1..Len(events) :
          events[k][1] = "set" =>
              LET before == SubSeq(events, 1, k - 1)
                  lo == LatestBound(before, 2, 0)
                  hi == LatestBound(before, 3, 16777)
                  v == events[k][3]
              IN  events[k][4] = IF v < lo THEN lo ELSE IF v > hi THEN hi ELSE v

\* the first instance is constructed with the defaults, a second one with
\* bounds: a set-point of 0 written through the first is raised to the
\* second's minimum
C23_Witness ==
    /\ Len(events) = 3
    /\ events[1] = <<"new", None, None>>
    /\ events[2] = <<"new", 200, 3000>>
    /\ events[3] = <<"set", 1, 0, 200>>
    /\ T_RANGE = <<200, 3000>>
====
